---- MODULE Spec2Model ----
(***************************************************************************)
(* Music catalog service: the lyrics lookup with its TTL cache             *)
(* (lyrics_fetcher.py, main.py /lyrics) and the background metadata        *)
(* enrichment of song records (main.py /enrich-metadata, crud.py).         *)
(*                                                                         *)
(* Strings that the code normalizes are sequences of one-character         *)
(* strings, so that strip() and lower() are computed, not assumed.         *)
(***************************************************************************)
EXTENDS Integers, Sequences, FiniteSets, TLC

(***************************************************************************)
(* Bounds.  CACHE_TTL_SECONDS and CACHE_MAX_SIZE stand for the values 600  *)
(* and 500 of lyrics_fetcher.py:12-13, scaled down to clock ticks and to a *)
(* capacity that the modelled keys can fill.                               *)
(***************************************************************************)
CACHE_TTL_SECONDS == 2

CACHE_MAX_SIZE == 2

MaxTime == 3

\* HTTP requests to the catalog and scheduled enrichment tasks considered
MaxOps == 4

MaxTasks == 2

\* GET /lyrics requests received
MaxRequests == 3

None == "None"

VARIABLES
    now,        \* the cache timer (time.monotonic), in ticks
    cache,      \* lyrics_cache: entries <<key, value, expires>>, least recently used first
    pc,         \* position of the (blocking) fetch_lyrics call: idle, hit, miss
    cur,        \* arguments and cache key of the current / last fetch_lyrics call
    ret,        \* outcome of the last completed fetch_lyrics call and the endpoint's status
    log,        \* history: per cache key, the store by fetch_lyrics that the cache still holds
    failedKeys  \* history: keys whose most recent call went to the gateway and stored nothing

VARIABLES
    inflight,   \* GET /lyrics requests received and not yet run by the event loop
    arrived,    \* number of GET /lyrics requests received
    peers,      \* history: the requests in flight when the current / last request was started
    prev        \* history: the call before the current / last one, and whether the
                \* current request was in flight when that call was started

VARIABLES
    songs,      \* the songs table: id -> row, or NoSong where there is no row
    tasks,      \* the enrichment tasks scheduled so far, in scheduling order
    sessions,   \* the store sessions of the enrichment requests and of their tasks
    resp,       \* the last response of a catalog request
    ops         \* number of catalog requests handled

queueVars == <<inflight, arrived, peers, prev>>

lyricsVars == <<now, cache, pc, cur, ret, log, failedKeys, inflight, arrived, peers, prev>>

enrichVars == <<songs, tasks, sessions, resp, ops>>

vars ==
    <<now, cache, pc, cur, ret, log, failedKeys, inflight, arrived, peers, prev,
      songs, tasks, sessions, resp, ops>>

----------------------------------------------------------------------------
(* str.strip() and str.lower() on sequences of characters.                 *)

IsSpace(ch) == ch = " "

LowerChar(ch) ==
    CASE ch = "S" -> "s"
      [] ch = "H" -> "h"
      [] ch = "Q" -> "q"
      [] ch = "I" -> "i"
      [] ch = "J" -> "j"
      [] ch = "B" -> "b"
      [] OTHER -> ch

Lower(s) == [i \in 1..Len(s) |-> LowerChar(s[i])]

RECURSIVE LStrip(_)
LStrip(s) == IF s # <<>> /\ IsSpace(Head(s)) THEN LStrip(Tail(s)) ELSE s

RECURSIVE RStrip(_)
RStrip(s) ==
    IF s # <<>> /\ IsSpace(s[Len(s)]) THEN RStrip(SubSeq(s, 1, Len(s) - 1)) ELSE s

Strip(s) == RStrip(LStrip(s))

NormalizeRaw(s) == Strip(s)

\* artist.strip().lower()
Normalize(s) == Lower(Strip(s))

\* f"{normalized_artist}-{normalized_title}"
CacheKey(artist, title) == Normalize(artist) \o <<"-">> \o Normalize(title)

\* The (artist, title) arguments the requests are drawn from.
ArgPairs ==
    { <<<<"S">>, <<"H">>>>,
      <<<<"s">>, <<"h", " ">>>>,
      <<<<"a", "-", "b">>, <<"c">>>>,
      <<<<"a">>, <<"b", "-", "c">>>>,
      <<<<" ", "Q">>, <<"r">>>> }

Keys == { CacheKey(p[1], p[2]) : p \in ArgPairs }

Texts == {"la", "lb"}

----------------------------------------------------------------------------
(* cachetools.TTLCache(maxsize, ttl) as used through `in`, [] and []=.     *)

KeysOf(c) == { c[i].key : i \in 1..Len(c) }

EntryOf(c, key) == c[CHOOSE i \in 1..Len(c) : c[i].key = key]

Without(c, key) == SelectSeq(c, LAMBDA e : e.key # key)

ExpireEarly(c, time) == SelectSeq(c, LAMBDA e : time + 1 < e.expires)

\* TTLCache.expire(time): drops every entry with not (time < expires)
Expire(c, time) == SelectSeq(c, LAMBDA e : time < e.expires)

ContainsAtOrBefore(c, key, time) ==
    key \in KeysOf(c) /\ time <= EntryOf(c, key).expires

\* TTLCache.__contains__: the key is linked and timer() < link.expires
Contains(c, key, time) ==
    key \in KeysOf(c) /\ time < EntryOf(c, key).expires

\* TTLCache.__getitem__: KeyError (found = FALSE) for an unknown or expired
\* key; the link of a known key moves to the end of the use order.
GetItem(c, key, time) ==
    IF key \notin KeysOf(c)
    THEN [found |-> FALSE, value |-> None, cache |-> c]
    ELSE LET e == EntryOf(c, key)
         IN [found |-> time < e.expires,
             value |-> IF time < e.expires THEN e.value ELSE None,
             cache |-> Append(Without(c, key), e)]

PopWhileFullNever(c) == c

\* Cache.__setitem__: while currsize + size > maxsize: popitem()  (first in use order)
RECURSIVE PopWhileFull(_)
PopWhileFull(c) ==
    IF Len(c) + 1 > CACHE_MAX_SIZE /\ c # <<>> THEN PopWhileFull(Tail(c)) ELSE c

\* TTLCache.__setitem__: expire(time); make room for a new key; store the
\* value; link the key at the end with expires = time + ttl.
SetItem(c, key, value, time) ==
    LET swept == Expire(c, time)
        room  == IF key \in KeysOf(swept) THEN swept ELSE PopWhileFull(swept)
    IN Append(Without(room, key),
              [key |-> key, value |-> value, expires |-> time + CACHE_TTL_SECONDS])

----------------------------------------------------------------------------
(* fetch_lyrics and the /lyrics endpoint.                                  *)

\* What the gateway call (requests.get .. response.json()) can produce.
Outcomes ==
    { "lyrics",        \* a mapping with a 'lyrics' key
      "error",         \* a mapping with an 'error' key and no 'lyrics' key
      "other_mapping", \* a mapping with neither key
      "array",         \* a JSON array holding neither string
      "scalar",        \* a JSON number, true, false or null
      "string",        \* a JSON string that contains the text 'lyrics'
      "not_json",      \* response.json() raises ValueError
      "http_error",    \* raise_for_status() raises HTTPError (4xx, 5xx)
      "connection",    \* requests.exceptions.ConnectionError
      "timeout" }      \* requests.exceptions.Timeout

StoresOnErrorToo(o) == o \in {"lyrics", "error"}

\* lines 61-63: the branch that stores in the cache
Stores(o) == o = "lyrics"

\* lines 58-90: what fetch_lyrics hands to its caller for each outcome.
\* 'lyrics' in data raises TypeError for a scalar; for a string it is a
\* substring test that succeeds and data['lyrics'] raises TypeError.
\* TypeError is not among the exceptions caught at lines 73-90.
FetchResult(o, text) ==
    CASE o = "lyrics" -> [kind |-> "text", value |-> text]
      [] o \in {"scalar", "string"} -> [kind |-> "raised", value |-> "TypeError"]
      [] OTHER -> [kind |-> "None", value |-> None]

\* get_lyrics_endpoint: 404 for None, the lyrics otherwise; an exception
\* that escapes fetch_lyrics is answered 500 by the framework.
EndpointStatus(r) ==
    CASE r.kind = "raised" -> 500
      [] r.kind = "None" -> 404
      [] OTHER -> 200

Answer(r, via) ==
    [kind |-> r.kind, value |-> r.value, via |-> via, status |-> EndpointStatus(r)]

NoCall == [artist |-> <<>>, title |-> <<>>, key |-> <<>>]

NoRet == [kind |-> "none", value |-> None, via |-> "none", status |-> 0]

NoStore == [text |-> None, at |-> 0, artist |-> <<>>, title |-> <<>>]

\* history mark of a key that popitem() removed before its expiry
Evicted == [text |-> "evicted", at |-> 0, artist |-> <<>>, title |-> <<>>]

NoPrev == [key |-> <<>>, via |-> "none", kind |-> "none", together |-> FALSE]

\* lines 35-42: normalize, build the key, test `cache_key in lyrics_cache`.
\* fetch_lyrics is a plain function that blocks its caller until it returns,
\* so a call starts only when no other call is under way.
StartCall(artist, title) ==
    /\ pc = "idle"
    /\ LET key == CacheKey(artist, title)
       IN /\ cur' = [artist |-> artist, title |-> title, key |-> key]
          /\ pc' = IF Contains(cache, key, now) THEN "hit" ELSE "miss"
          /\ failedKeys' = failedKeys \ {key}
    /\ ret' = NoRet
    /\ UNCHANGED <<now, cache, log>>
    /\ UNCHANGED enrichVars

\* a call of fetch_lyrics with any arguments
FetchStart(artist, title) ==
    /\ StartCall(artist, title)
    /\ UNCHANGED queueVars

\* GET /lyrics is received while the event loop may be busy: the request
\* waits, in flight, until the loop takes it up
Arrive(p) ==
    /\ arrived < MaxRequests
    /\ p \notin inflight
    /\ inflight' = inflight \cup {p}
    /\ arrived' = arrived + 1
    /\ UNCHANGED <<peers, prev>>
    /\ UNCHANGED <<now, cache, pc, cur, ret, log, failedKeys>>
    /\ UNCHANGED enrichVars

\* get_lyrics_endpoint, a coroutine, calls fetch_lyrics without awaiting
\* anything: the loop runs one in-flight request to its end before the next
Serve(p) ==
    /\ p \in inflight
    /\ StartCall(p[1], p[2])
    /\ inflight' = inflight \ {p}
    /\ peers' = inflight \ {p}
    /\ prev' = [key |-> cur.key, via |-> ret.via, kind |-> ret.kind, together |-> p \in peers]
    /\ UNCHANGED arrived

\* lines 43-45: lyrics_cache[cache_key], outside the try block
CacheRead ==
    /\ pc = "hit"
    /\ LET g == GetItem(cache, cur.key, now)
       IN /\ cache' = g.cache
          /\ ret' = IF g.found
                    THEN Answer([kind |-> "text", value |-> g.value], "cache")
                    ELSE Answer([kind |-> "raised", value |-> "KeyError"], "cache")
    /\ pc' = "idle"
    /\ UNCHANGED <<now, cur, log, failedKeys>>
    /\ UNCHANGED queueVars
    /\ UNCHANGED enrichVars

\* lines 49-90: the gateway call returns with outcome o (and text, if any)
GatewayReply(o, text) ==
    /\ pc = "miss"
    /\ LET new == IF Stores(o) THEN SetItem(cache, cur.key, text, now) ELSE cache
       IN /\ cache' = new
          /\ log' = IF Stores(o)
                    THEN [k \in Keys |->
                            IF k = cur.key
                            THEN [text |-> text, at |-> now, artist |-> cur.artist,
                                  title |-> cur.title]
                            ELSE IF k \in KeysOf(new) THEN log[k]
                            ELSE IF k \in KeysOf(Expire(cache, now)) THEN Evicted
                            ELSE IF k \in KeysOf(cache) THEN NoStore
                            ELSE log[k]]
                    ELSE log
    /\ ret' = Answer(FetchResult(o, text), "gateway")
    /\ failedKeys' = IF Stores(o) THEN failedKeys ELSE failedKeys \cup {cur.key}
    /\ pc' = "idle"
    /\ UNCHANGED <<now, cur>>
    /\ UNCHANGED queueVars
    /\ UNCHANGED enrichVars

\* time passes, also while a call is between its steps
Tick ==
    /\ now < MaxTime
    /\ now' = now + 1
    /\ UNCHANGED <<cache, pc, cur, ret, log, failedKeys>>
    /\ UNCHANGED queueVars
    /\ UNCHANGED enrichVars

LyricsInit ==
    /\ now = 0
    /\ cache = <<>>
    /\ pc = "idle"
    /\ cur = NoCall
    /\ ret = NoRet
    /\ log = [k \in Keys |-> NoStore]
    /\ failedKeys = {}
    /\ inflight = {}
    /\ arrived = 0
    /\ peers = {}
    /\ prev = NoPrev

LyricsNext ==
    \/ \E p \in ArgPairs : FetchStart(p[1], p[2])
    \/ CacheRead
    \/ \E o \in Outcomes, text \in Texts : GatewayReply(o, text)
    \/ Tick

\* the /lyrics endpoint under requests that are in flight together
ServeNext ==
    \/ \E p \in ArgPairs : Arrive(p)
    \/ \E p \in ArgPairs : Serve(p)
    \/ CacheRead
    \/ \E o \in Outcomes, text \in Texts : GatewayReply(o, text)
    \/ Tick

----------------------------------------------------------------------------
(* The songs table (models.Song) and the crud functions.                   *)

SongIds == {1, 2}

\* columns of models.Song; the integer bpm is written as a numeral so that it
\* can be compared with None
SongAttrs ==
    {"id", "title", "artist", "album", "genre", "release_year",
     "bpm", "mood", "enriched_genre"}

\* the three enrichment columns (models.py:17-19, schemas.py:12-14)
MetadataFields == {"bpm", "mood", "enriched_genre"}

\* what a query yields when there is no row
NoSong ==
    [id |-> 0, title |-> <<>>, artist |-> <<>>, album |-> None, genre |-> None,
     release_year |-> 0, bpm |-> None, mood |-> None, enriched_genre |-> None]

BaseSong(id, title, artist) ==
    [id |-> id, title |-> title, artist |-> artist, album |-> "Album", genre |-> "Rock",
     release_year |-> 1971, bpm |-> None, mood |-> None, enriched_genre |-> None]

\* schemas.SongCreate bodies: no enrichment columns, so they default to None
CreateBodies == { BaseSong(0, <<"B">>, <<"Q">>) }

\* schemas.Song bodies of PUT: every column, the enrichment ones None when omitted
PutBodies(id) ==
    { BaseSong(id, <<" ", "i">>, <<"J">>),
      [BaseSong(id, <<"I">>, <<"J">>) EXCEPT
          !.bpm = "100", !.mood = "Calm", !.enriched_genre = "Jazz"] }

\* schemas.SongUpdate bodies of PATCH, as dict(exclude_unset=True)
PatchBodies ==
    { [title |-> <<"x">>],
      [album |-> "Remaster", release_year |-> 1975] }

\* mappings handed to update_song_metadata
Mappings ==
    { [bpm |-> "144", mood |-> "Epic", enriched_genre |-> "Progressive Rock"],
      [bpm |-> "144", mood |-> "Epic", enriched_genre |-> "Progressive Rock",
       unknown_field |-> "x"],
      [bpm |-> "120", title |-> <<"x">>],
      [unknown_field |-> "x"] }

\* fetch_mock_metadata found nothing (it returns None)
NoMetadata == [none |-> TRUE]

\* MOCK_METADATA_DB, keyed by (normalized title, normalized artist); the
\* names are abbreviated to their first letter.
MOCK_METADATA_DB ==
    [k \in { <<<<"b">>, <<"q">>>>, <<<<"i">>, <<"j">>>> } |->
        IF k = <<<<"b">>, <<"q">>>>
        THEN [bpm |-> "144", mood |-> "Epic", enriched_genre |-> "Progressive Rock"]
        ELSE [bpm |-> "75", mood |-> "Peaceful", enriched_genre |-> "Soft Rock"]]

\* fetch_mock_metadata: strip().lower() both names, look the pair up
FetchMockMetadata(title, artist) ==
    LET key == <<Lower(Strip(title)), Lower(Strip(artist))>>
    IN IF key \in DOMAIN MOCK_METADATA_DB THEN MOCK_METADATA_DB[key] ELSE NoMetadata

\* crud.get_song_by_id
GetSongById(db, id) == db[id]

\* truth value of a query result (`if not song`, `if db_song`)
Found(song) == song # NoSong

\* hasattr(db_song, key): every mapped column of the row object is an attribute
HasAttr(key) == key \in SongAttrs

\* The columns the flush writes.  setattr puts metadata[key] on the row
\* object; the unit of work emits UPDATE only for the attributes whose value
\* differs from the one the session loaded.  `held` is the row object the
\* session already holds for this id (its attributes are not reloaded by the
\* query at crud.py:177), or NoSong for a session that holds none.
DirtyKeys(stored, held, metadata) ==
    LET obj == IF Found(held) THEN held ELSE stored
    IN { key \in DOMAIN metadata : HasAttr(key) /\ metadata[key] # obj[key] }

UpdateSongMetadataStrict(stored, held, metadata) ==
    IF ~Found(stored)
    THEN [row |-> stored, result |-> "None", wrote |-> FALSE]
    ELSE IF \E key \in DOMAIN metadata : ~HasAttr(key)
    THEN [row |-> stored, result |-> "raised", wrote |-> FALSE]
    ELSE [row |-> [a \in SongAttrs |->
                     IF a \in DirtyKeys(stored, held, metadata)
                     THEN metadata[a] ELSE stored[a]],
          result |-> "song",
          wrote |-> DirtyKeys(stored, held, metadata) # {}]

UpdateSongMetadataUpsert(stored, held, metadata) ==
    [row |-> [a \in SongAttrs |->
                IF a \in DOMAIN metadata THEN metadata[a]
                ELSE IF Found(stored) THEN stored[a]
                ELSE held[a]],
     result |-> "song",
     wrote |-> TRUE]

\* crud.update_song_metadata: the row after the commit, what is returned,
\* and whether an UPDATE was issued
UpdateSongMetadata(stored, held, metadata) ==
    IF ~Found(stored)
    THEN [row |-> stored, result |-> "None", wrote |-> FALSE]
    ELSE [row |-> [a \in SongAttrs |->
                     IF a \in DirtyKeys(stored, held, metadata)
                     THEN metadata[a] ELSE stored[a]],
          result |-> "song",
          wrote |-> DirtyKeys(stored, held, metadata) # {}]

\* INTEGER PRIMARY KEY without a client id: one more than the largest id
NextId(db) ==
    IF \A i \in SongIds : ~Found(db[i]) THEN 1
    ELSE 1 + CHOOSE i \in SongIds : Found(db[i]) /\ \A j \in SongIds : Found(db[j]) => j <= i

Respond(op, id, status, body) == [op |-> op, id |-> id, status |-> status, body |-> body]

NoBody == [none |-> TRUE]

\* POST /songs/ with a client id (crud.create_new_song)
CreateSong(id, body) ==
    /\ ops < MaxOps
    /\ ops' = ops + 1
    /\ IF Found(GetSongById(songs, id))
       THEN /\ songs' = songs
            /\ resp' = Respond("create", id, 400, NoBody)
       ELSE /\ songs' = [songs EXCEPT ![id] = [body EXCEPT !.id = id]]
            /\ resp' = Respond("create", id, 201, NoBody)
    /\ UNCHANGED <<tasks, sessions>>
    /\ UNCHANGED lyricsVars

\* POST /songs/ without an id: the database assigns one
CreateSongAuto(body) ==
    /\ ops < MaxOps
    /\ NextId(songs) \in SongIds
    /\ ops' = ops + 1
    /\ songs' = [songs EXCEPT ![NextId(songs)] = [body EXCEPT !.id = NextId(songs)]]
    /\ resp' = Respond("create", NextId(songs), 201, NoBody)
    /\ UNCHANGED <<tasks, sessions>>
    /\ UNCHANGED lyricsVars

\* PUT /songs/{id} (crud.update_existing_song): every column replaced
PutSong(id, body) ==
    /\ ops < MaxOps
    /\ ops' = ops + 1
    /\ IF Found(GetSongById(songs, id))
       THEN /\ songs' = [songs EXCEPT ![id] = body]
            /\ resp' = Respond("put", id, 200, NoBody)
       ELSE /\ songs' = songs
            /\ resp' = Respond("put", id, 404, NoBody)
    /\ UNCHANGED <<tasks, sessions>>
    /\ UNCHANGED lyricsVars

\* PATCH /songs/{id} (crud.patch_existing_song): the given columns replaced
PatchSong(id, body) ==
    /\ ops < MaxOps
    /\ ops' = ops + 1
    /\ IF Found(GetSongById(songs, id))
       THEN /\ songs' = [songs EXCEPT ![id] =
                           [a \in SongAttrs |->
                              IF a \in DOMAIN body THEN body[a] ELSE songs[id][a]]]
            /\ resp' = Respond("patch", id, 200, NoBody)
       ELSE /\ songs' = songs
            /\ resp' = Respond("patch", id, 404, NoBody)
    /\ UNCHANGED <<tasks, sessions>>
    /\ UNCHANGED lyricsVars

\* DELETE /songs/{id} (crud.delete_song_by_id)
DeleteSong(id) ==
    /\ ops < MaxOps
    /\ ops' = ops + 1
    /\ IF Found(GetSongById(songs, id))
       THEN /\ songs' = [songs EXCEPT ![id] = NoSong]
            /\ resp' = Respond("delete", id, 204, NoBody)
       ELSE /\ songs' = songs
            /\ resp' = Respond("delete", id, 404, NoBody)
    /\ UNCHANGED <<tasks, sessions>>
    /\ UNCHANGED lyricsVars

ApplyStatus(result) ==
    CASE result = "song" -> 200
      [] result = "None" -> 404
      [] OTHER -> 500

\* crud.update_song_metadata called with a session of its own and any mapping
ApplyMetadata(id, metadata) ==
    /\ ops < MaxOps
    /\ ops' = ops + 1
    /\ LET u == UpdateSongMetadata(GetSongById(songs, id), NoSong, metadata)
       IN /\ songs' = [songs EXCEPT ![id] = u.row]
          /\ resp' = Respond("apply", id, ApplyStatus(u.result), metadata)
    /\ UNCHANGED <<tasks, sessions>>
    /\ UNCHANGED lyricsVars

----------------------------------------------------------------------------
(* POST /enrich-metadata and enrich_song_metadata_task.                    *)

EnrichAcceptsAny(song) == TRUE

\* main.py:253-258: the handler's existence check
EnrichAccepts(song) == Found(song)

TaskProceedsAny(song) == TRUE

\* main.py:59-62: the task's existence check
TaskProceeds(song) == Found(song)

\* a session as SessionLocal() returns it
NewSession(owner) == [owner |-> owner, open |-> TRUE]

\* get_db's `finally: db.close()`, and the state of a session after it
Close(session) == [session EXCEPT !.open = FALSE]

TaskSessionOfRequest(request_db, fresh_db) == request_db

\* main.py:263: the session handed to the task is the SessionLocal() made
\* there, not the handler's db
TaskSession(request_db, fresh_db) == fresh_db

\* a store operation of a task, as issued: the session it goes to and
\* whether that session is open
StoreOp(t) == [db |-> t.db, open |-> sessions[t.db].open]

NewTask(id, request_db, db) ==
    [song_id |-> id, request_db |-> request_db, db |-> db, pc |-> "queued",
     held |-> NoSong, data |-> NoMetadata, gw |-> 0, wrote |-> FALSE,
     result |-> "none", store_ops |-> <<>>]

\* enrich_metadata_endpoint: 404, or add the task and answer 202; the task
\* starts only after the response is sent.  The handler's own session (get_db)
\* is closed by RequestTeardown; with the 404 it is opened and closed within
\* the request.
EnrichRequest(id) ==
    /\ ops < MaxOps
    /\ Len(tasks) < MaxTasks
    /\ ops' = ops + 1
    /\ IF EnrichAccepts(GetSongById(songs, id))
       THEN /\ sessions' = sessions \o <<NewSession("request"), NewSession("task")>>
            /\ tasks' = Append(tasks,
                   NewTask(id, Len(sessions) + 1,
                           TaskSession(Len(sessions) + 1, Len(sessions) + 2)))
            /\ resp' = Respond("enrich", id, 202, NoBody)
       ELSE /\ sessions' = sessions
            /\ tasks' = tasks
            /\ resp' = Respond("enrich", id, 404, NoBody)
    /\ UNCHANGED songs
    /\ UNCHANGED lyricsVars

\* main.py:56-70: look the song up in the task's session; return if it is
\* gone, else call the gateway with the title and artist read and suspend
TaskLookup(i) ==
    /\ i <= Len(tasks)
    /\ tasks[i].pc = "queued"
    /\ LET song == GetSongById(songs, tasks[i].song_id)
       IN tasks' = [tasks EXCEPT ![i] =
            IF TaskProceeds(song)
            THEN [@ EXCEPT !.pc = "waiting", !.held = song, !.gw = @ + 1,
                           !.data = FetchMockMetadata(song.title, song.artist),
                           !.store_ops = Append(@, StoreOp(tasks[i]))]
            ELSE [@ EXCEPT !.pc = "done", !.result = "missing",
                           !.store_ops = Append(@, StoreOp(tasks[i]))]]
    /\ UNCHANGED <<songs, sessions, resp, ops>>
    /\ UNCHANGED lyricsVars

\* main.py:72-80: the gateway call returns; store the mapping, if any, with
\* the session that still holds the row object read at line 59
TaskApply(i) ==
    /\ i <= Len(tasks)
    /\ tasks[i].pc = "waiting"
    /\ LET t == tasks[i]
           u == UpdateSongMetadata(GetSongById(songs, t.song_id), t.held, t.data)
       IN IF t.data # NoMetadata
          THEN /\ songs' = [songs EXCEPT ![t.song_id] = u.row]
               /\ tasks' = [tasks EXCEPT ![i] =
                     [@ EXCEPT !.pc = "done", !.wrote = u.wrote,
                               !.result = IF u.result = "song" THEN "updated"
                                          ELSE "update_failed",
                               !.store_ops = Append(@, StoreOp(t))]]
          ELSE /\ songs' = songs
               /\ tasks' = [tasks EXCEPT ![i] =
                     [@ EXCEPT !.pc = "done", !.result = "no_match"]]
    /\ UNCHANGED <<sessions, resp, ops>>
    /\ UNCHANGED lyricsVars

\* main.py:36-41: the teardown of get_db for an enrichment request, run by
\* the framework after the handler; it may come before, between or after the
\* steps of the task the request scheduled
RequestTeardown(s) ==
    /\ s <= Len(sessions)
    /\ sessions[s].owner = "request"
    /\ sessions[s].open
    /\ sessions' = [sessions EXCEPT ![s] = Close(@)]
    /\ UNCHANGED <<songs, tasks, resp, ops>>
    /\ UNCHANGED lyricsVars

\* the table as found at startup: one song, still without metadata
EnrichInit ==
    /\ songs = [i \in SongIds |-> IF i = 1 THEN BaseSong(1, <<"I">>, <<"J">>) ELSE NoSong]
    /\ tasks = <<>>
    /\ sessions = <<>>
    /\ resp = Respond("none", 0, 0, NoBody)
    /\ ops = 0

EnrichNext ==
    \/ \E id \in SongIds, body \in CreateBodies : CreateSong(id, body)
    \/ \E body \in CreateBodies : CreateSongAuto(body)
    \/ \E id \in SongIds : \E body \in PutBodies(id) : PutSong(id, body)
    \/ \E id \in SongIds, body \in PatchBodies : PatchSong(id, body)
    \/ \E id \in SongIds : DeleteSong(id)
    \/ \E id \in SongIds : EnrichRequest(id)
    \/ \E i \in 1..MaxTasks : TaskLookup(i)
    \/ \E i \in 1..MaxTasks : TaskApply(i)
    \/ \E s \in 1..(2 * MaxTasks) : RequestTeardown(s)

\* update_song_metadata as a function of its own: applied, with any mapping,
\* to every table the catalog operations can produce
ApplyNext ==
    \/ \E id \in SongIds, m \in Mappings : ApplyMetadata(id, m)
    \/ EnrichNext

Init == LyricsInit /\ EnrichInit

SpecLyrics == Init /\ [][LyricsNext]_vars

SpecEnrich == Init /\ [][EnrichNext]_vars

SpecApply == Init /\ [][ApplyNext]_vars

SpecServe == Init /\ [][ServeNext]_vars

Next == LyricsNext \/ ServeNext \/ ApplyNext

Spec == Init /\ [][Next]_vars

----------------------------------------------------------------------------
(* Properties of the lyrics cache and of fetch_lyrics.                     *)

Held(k) == log[k] \notin {NoStore, Evicted}

\* "equal after trimming whitespace and lower-casing", stated on its own
Trimmed(s) == Lower(Strip(s))

SameSong(k, artist, title) ==
    /\ Held(k)
    /\ Trimmed(log[k].artist) = Trimmed(artist)
    /\ Trimmed(log[k].title) = Trimmed(title)

\* the cached keys with their values
KV(c) == { <<c[i].key, c[i].value>> : i \in 1..Len(c) }

C2_SizeBound ==
    /\ Len(cache) <= CACHE_MAX_SIZE
    /\ Cardinality(KeysOf(cache)) = Len(cache)

\* a store into a full cache evicted a live entry
C2_Witness ==
    /\ Len(cache) = CACHE_MAX_SIZE
    /\ \E k \in Keys : log[k] = Evicted
    /\ ret.via = "gateway" /\ ret.kind = "text"

\* C3: while the entry of a successful fetch is neither expired nor evicted,
\* a call whose arguments equal the storing call's after trimming and
\* lower-casing is never sent to the gateway: it is classified as a hit, its
\* read of the cache yields the stored text, and that text is what it returns.
C3_SecondCallHits ==
    \A k \in Keys :
        (SameSong(k, cur.artist, cur.title) /\ now < log[k].at + CACHE_TTL_SECONDS) =>
            /\ pc # "miss"
            /\ pc = "hit" =>
                  /\ GetItem(cache, cur.key, now).found
                  /\ GetItem(cache, cur.key, now).value = log[k].text
            /\ (pc = "idle" /\ ret.via = "cache") =>
                  /\ ret.kind = "text"
                  /\ ret.value = log[k].text

\* a case/whitespace variant of the storing call was served from the cache
C3_Witness ==
    /\ pc = "idle"
    /\ ret.via = "cache" /\ ret.kind = "text"
    /\ SameSong(cur.key, cur.artist, cur.title)
    /\ <<cur.artist, cur.title>> # <<log[cur.key].artist, log[cur.key].title>>
    /\ ret.value = log[cur.key].text

C5_NoEscape ==
    ret.via = "gateway" => ret.kind \in {"text", "None"} /\ ret.status \in {200, 404}

----------------------------------------------------------------------------
(* Properties of the enrichment task and of update_song_metadata.          *)

\* C6: a task that finds no record at its initial lookup ends there: no call
\* to the enrichment gateway, no write to the store.
C6_MissingSongNoWork ==
    \A i \in 1..Len(tasks) :
        (tasks[i].pc # "queued" /\ ~Found(tasks[i].held)) =>
            /\ tasks[i].pc = "done"
            /\ tasks[i].result = "missing"
            /\ tasks[i].gw = 0
            /\ ~tasks[i].wrote

\* a task found its song deleted
C6_Witness == \E i \in 1..Len(tasks) : tasks[i].result = "missing"

\* the request handled in this step applied a mapping to an existing song
Applied == ops' # ops /\ resp'.op = "apply" /\ Found(songs[resp'.id])

C8_OnlyMetadataFieldsChange ==
    [][ Applied =>
          \A a \in SongAttrs \ MetadataFields :
              songs'[resp'.id][a] = songs[resp'.id][a] ]_vars

\* C9: POST /enrich-metadata for s is answered 202 with exactly one task for s
\* added, not yet started, if s is in the store; else 404 and no task added.
C9_EnrichAnswer ==
    [][ (ops' # ops /\ resp'.op = "enrich") =>
          IF songs[resp'.id] # NoSong
          THEN /\ resp'.status = 202
               /\ Len(tasks') = Len(tasks) + 1
               /\ SubSeq(tasks', 1, Len(tasks)) = tasks
               /\ tasks'[Len(tasks')].song_id = resp'.id
               /\ tasks'[Len(tasks')].pc = "queued"
               /\ tasks'[Len(tasks')].gw = 0
          ELSE /\ resp'.status = 404
               /\ tasks' = tasks ]_vars

\* a request was accepted and its task is waiting to start
C9_Witness ==
    /\ resp.op = "enrich" /\ resp.status = 202
    /\ tasks # <<>>
    /\ tasks[Len(tasks)].song_id = resp.id
    /\ tasks[Len(tasks)].pc = "queued"

\* C10: when a task holds a mapping M and its song exists at write time, the
\* stored bpm, mood and enriched_genre equal M right after the task's commit.
C10_TaskWriteWins ==
    [][ \A i \in 1..Len(tasks) :
          (/\ tasks[i].pc = "waiting"
           /\ tasks'[i].pc = "done"
           /\ tasks[i].data # NoMetadata
           /\ Found(songs[tasks[i].song_id])) =>
              \A f \in MetadataFields :
                  songs'[tasks[i].song_id][f] = tasks[i].data[f] ]_vars

\* C11: a task whose mapping holds only bpm, mood and enriched_genre, and
\* whose song exists when it writes: right after its commit the three fields
\* have the mapping's values, and id, title, artist, album, genre and
\* release_year are as the store held them just before the commit (so a PUT
\* or PATCH committed since the task's lookup is not reverted).
C11_TaskFrame ==
    [][ \A i \in 1..Len(tasks) :
          (/\ tasks[i].pc = "waiting"
           /\ tasks'[i].pc = "done"
           /\ tasks[i].data # NoMetadata
           /\ DOMAIN tasks[i].data \subseteq MetadataFields
           /\ Found(songs[tasks[i].song_id])) =>
              /\ \A f \in MetadataFields :
                    songs'[tasks[i].song_id][f] = tasks[i].data[f]
              /\ \A a \in SongAttrs \ MetadataFields :
                    songs'[tasks[i].song_id][a] = songs[tasks[i].song_id][a] ]_vars

\* C12: every store operation of an enrichment task is issued on a session
\* other than the session of the request that scheduled the task, and on a
\* session that is open at that moment, wherever the request's teardown falls.
C12_TaskOwnOpenSession ==
    \A i \in 1..Len(tasks) :
        \A j \in 1..Len(tasks[i].store_ops) :
            /\ tasks[i].store_ops[j].db # tasks[i].request_db
            /\ tasks[i].store_ops[j].open

\* a task has looked its song up and is still to write, and the session of
\* the request that scheduled it has been closed
C12_Witness ==
    \E i \in 1..Len(tasks) :
        /\ tasks[i].pc = "waiting"
        /\ tasks[i].data # NoMetadata
        /\ Len(tasks[i].store_ops) = 1
        /\ tasks[i].store_ops[1].open
        /\ ~sessions[tasks[i].request_db].open

\* C13: once a task has ended, whatever its outcome, the session created for
\* it is closed (so no task session is open when every task has ended).
C13_TaskSessionReleased ==
    \A i \in 1..Len(tasks) :
        tasks[i].pc = "done" => ~sessions[tasks[i].db].open

\* a step of task i (its lookup, or its resumption after the gateway call)
TaskStep(i) == i <= Len(tasks) /\ tasks'[i].pc # tasks[i].pc

\* C15: a step of a task changes the store only if the task holds a non-empty
\* mapping from the gateway and its song is in the store at that moment; with
\* no match, or with the song deleted during the gateway call, the store is
\* left as it was; and no task step adds a record or removes one.
C15_TaskWritesOnlyExisting ==
    [][ \A i \in 1..MaxTasks :
          TaskStep(i) =>
              /\ songs' # songs =>
                    /\ tasks[i].pc = "waiting"
                    /\ tasks[i].data # NoMetadata
                    /\ Found(songs[tasks[i].song_id])
              /\ (tasks[i].pc = "waiting" /\ tasks[i].data = NoMetadata) => songs' = songs
              /\ (tasks[i].pc = "waiting" /\ ~Found(songs[tasks[i].song_id])) => songs' = songs
              /\ \A id \in SongIds : Found(songs'[id]) <=> Found(songs[id]) ]_vars

\* a task that got a mapping ended after its song had been deleted during the
\* gateway call, and the song is still absent
C15_Witness ==
    \E i \in 1..Len(tasks) :
        /\ tasks[i].pc = "done"
        /\ tasks[i].result = "update_failed"
        /\ tasks[i].gw = 1
        /\ tasks[i].data # NoMetadata
        /\ ~tasks[i].wrote
        /\ ~Found(songs[tasks[i].song_id])

----------------------------------------------------------------------------
(* Further properties of fetch_lyrics.                                     *)

\* C16: a call that found its key in the cache and did not go to the gateway
\* ends with the cached text (answered 200), also when the entry reaches its
\* expiry instant between the membership test and the read of the value; the
\* read never raises.
C16_ExpiryDuringCall ==
    (pc = "idle" /\ ret.via = "cache") =>
        /\ ret.kind = "text"
        /\ ret.status = 200

\* each key is stored once and maps to the text of a successful gateway
\* response for that key, and the size bound holds
WellFormed ==
    /\ Len(cache) <= CACHE_MAX_SIZE
    /\ \A i, j \in 1..Len(cache) : cache[i].key = cache[j].key => i = j
    /\ \A i \in 1..Len(cache) :
          /\ Held(cache[i].key)
          /\ cache[i].value = log[cache[i].key].text

\* this step stores a new key into a cache full of entries that have not expired
EvictingStore ==
    /\ pc = "miss"
    /\ ret'.via = "gateway" /\ ret'.kind = "text"
    /\ cur.key \notin KeysOf(Expire(cache, now))
    /\ Len(Expire(cache, now)) >= CACHE_MAX_SIZE
    /\ cur.key \in KeysOf(cache')

\* C14: with requests in flight together, every step leaves the cache well
\* formed (one entry per key, holding a text that a successful gateway
\* response returned for that key, at most CACHE_MAX_SIZE entries), and an
\* entry that has not expired keeps its text and its expiry unless the step is
\* a store that evicts it.
C14_CacheWellFormed ==
    [][ /\ WellFormed'
        /\ \A k \in KeysOf(cache) :
              now < EntryOf(cache, k).expires =>
                  \/ /\ k \in KeysOf(cache')
                     /\ EntryOf(cache', k).value = EntryOf(cache, k).value
                     /\ EntryOf(cache', k).expires = EntryOf(cache, k).expires
                  \/ /\ EvictingStore
                     /\ k \notin KeysOf(cache') ]_vars

\* two requests for one key were in flight together, both missed, both
\* fetched and stored, and the cache holds one entry for the key, with the
\* text of the later one
C14_Witness ==
    /\ pc = "idle"
    /\ ret.via = "gateway" /\ ret.kind = "text"
    /\ prev.via = "gateway" /\ prev.kind = "text"
    /\ prev.key = cur.key
    /\ prev.together
    /\ Cardinality({ i \in 1..Len(cache) : cache[i].key = cur.key }) = 1
    /\ EntryOf(cache, cur.key).value = ret.value

\* the normalized (artist, title) pair of a call
NormalizedPair(artist, title) == <<Trimmed(artist), Trimmed(title)>>

\* C17: a text returned from the cache was stored by a call with the same
\* normalized (artist, title) pair as the call it is returned to, also for
\* artists and titles that contain '-'.
C17_NoSharedEntry ==
    (pc = "idle" /\ ret.via = "cache" /\ ret.kind = "text") =>
        NormalizedPair(cur.artist, cur.title) =
            NormalizedPair(log[cur.key].artist, log[cur.key].title)

====
